---- MODULE Spec2Model ----
(***************************************************************************)
(* A model of BatchPinger (src/batch_ping.go): one Engine, from            *)
(* NewBatchPinger and its setters through one call of Run, with the three  *)
(* goroutines Run starts (recvIpv4, recvIpv6, sendICMP), the two tickers   *)
(* of sendICMP and the packets the two sockets hand to the receivers.      *)
(*                                                                         *)
(* Time is abstract: a ticker is a channel of capacity one that the        *)
(* runtime may fill at any moment after time.NewTicker; time.Sleep is a    *)
(* position of the sender at which the other goroutines keep running.      *)
(* Goroutines interleave at the grain of their accesses to shared state    *)
(* (bp.done, the Pinger counters); the receivers' unsynchronised updates   *)
(* of a Pinger are a load and a store each. Spec is one call of Run on a   *)
(* new Engine, SpecReuse lets Run be called again on the same Engine.      *)
(***************************************************************************)
EXTENDS Integers, Sequences, FiniteSets, TLC

\* ---------------------------------------------------------------- bounds
MaxAddrs == 2       \* len(bp.addrs) ranges over 0..MaxAddrs
MaxCount == 2       \* bp.count ranges over -1..MaxCount
MaxReplies == 2     \* matching echo replies the network delivers in a run

\* ------------------------------------------------------ program constants
MyId == 1           \* bp.id, the process id (getPId)
BufSize == 512      \* make([]byte, 512): the receivers' read buffer
IcmpHeaderLen == 4  \* type, code, checksum: consumed by icmp.ParseMessage
EchoHeaderLen == 4  \* identifier, sequence: consumed by the echo body parser
TimeSliceLength == 8  \* bytes of the send timestamp in an echo payload
TrackerLength == 8    \* bytes of the session marker that follows it

ForeignId == MyId + 1
Counts == (0 - 1)..MaxCount
Seqs == 1..(MaxAddrs + 1)
Receivers == {4, 6}

VARIABLES
  count,         \* bp.count
  nAddrs,        \* len(bp.addrs)
  pcRun,         \* position of Run
  err,           \* the error Run returns ("nil" until it fails)
  conn4, conn6,  \* bp.conn4, bp.conn6: "nil", "open" or "closed"
  seqID,         \* Run's local seqID
  addrIdx,       \* Run's loop over bp.addrs: how many addresses it has taken
  mapSeqPinger,  \* bp.mapSeqPinger: seq -> [PacketsSent, PacketsRecv, rtts]
  done,          \* bp.done is closed
  closes,        \* how many times close(bp.done) was executed
  panicked,      \* a goroutine panicked (close of a closed channel)
  pcS,           \* position of sendICMP
  pending,       \* batchSendICMP: the pingers the range loop has yet to visit
  cur,           \* batchSendICMP: the pinger of the current iteration (0: none)
  sendCount,     \* bp.sendCount
  intervalC,     \* interval.C holds a tick
  timeoutC,      \* timeout.C holds a tick
  timeoutFired,  \* the timeout ticker has fired at least once
  pcR,           \* position of recvIpv4 (4) and recvIpv6 (6)
  pkt,           \* each receiver's recvPkg, as decoded
  perr,          \* what each receiver's last processPacket call returned
  ldRecv,        \* pinger.PacketsRecv++: the value each receiver loaded
  ldRtts,        \* append(pinger.rtts, ...): the slice each receiver loaded
  delivered,     \* sequences for which a matching reply was read
  nReplies       \* matching replies read so far

vars == <<count, nAddrs, pcRun, err, conn4, conn6, seqID, addrIdx, mapSeqPinger, done,
          closes, panicked, pcS, pending, cur, sendCount, intervalC, timeoutC,
          timeoutFired, pcR, pkt, perr, ldRecv, ldRtts, delivered, nReplies>>

runVars == <<pcRun, err, conn4, conn6, seqID, addrIdx>>
cfgVars == <<count, nAddrs>>
sendVars == <<pcS, pending, cur, sendCount>>
tickVars == <<intervalC, timeoutC, timeoutFired>>
gateVars == <<done, closes, panicked>>
recvVars == <<pcR, pkt, perr, ldRecv, ldRtts>>
netVars == <<delivered, nReplies>>

\* ---------------------------------------------------------------- packets
NoPkt == [kind |-> "none", id |-> 0, seq |-> 0]
ParseErrPkt == [kind |-> "parseErr", id |-> 0, seq |-> 0]
OtherTypePkt == [kind |-> "other", id |-> 0, seq |-> 0]
EchoReplies == [kind : {"echoReply"}, id : {MyId, ForeignId}, seq : Seqs]
Packets == {ParseErrPkt, OtherTypePkt} \cup EchoReplies

\* len(pkt.Data): ParseMessage is handed the whole read buffer (recv.bytes,
\* not recv.bytes[:recv.nbytes]), so the echo body's Data is what is left of
\* BufSize bytes after the two headers, whatever the datagram's length.
DataLen(p) == BufSize - IcmpHeaderLen - EchoHeaderLen

\* receivedAt.Sub(timestamp): durations are not modelled, a sample is tagged
\* with the sequence of the reply it was computed from.
RTT(p) == p.seq

\* A new Pinger's counters; addr is the address it pings, named by its place
\* in bp.addrs (0 until Run sets it).
NewPinger == [PacketsSent |-> 0, PacketsRecv |-> 0, rtts |-> <<>>, addr |-> 0]

\* ------------------------------------------------------------------- Init
\* NewBatchPinger followed by SetCount: a fresh Engine whose gate is open,
\* whose map is empty and whose sendCount is 0.
Init ==
  /\ count \in Counts
  /\ nAddrs \in 0..MaxAddrs
  /\ pcRun = "listen4"
  /\ err = "nil"
  /\ conn4 = "nil"
  /\ conn6 = "nil"
  /\ seqID = 0
  /\ addrIdx = 0
  /\ mapSeqPinger = <<>>
  /\ done = FALSE
  /\ closes = 0
  /\ panicked = FALSE
  /\ pcS = "idle"
  /\ pending = {}
  /\ cur = 0
  /\ sendCount = 0
  /\ intervalC = FALSE
  /\ timeoutC = FALSE
  /\ timeoutFired = FALSE
  /\ pcR = [r \in Receivers |-> "idle"]
  /\ pkt = [r \in Receivers |-> NoPkt]
  /\ perr = [r \in Receivers |-> "nil"]
  /\ ldRecv = [r \in Receivers |-> 0]
  /\ ldRtts = [r \in Receivers |-> <<>>]
  /\ delivered = {}
  /\ nReplies = 0

\* -------------------------------------------------------------------- Run
\* icmp.ListenPacket for IPv4: on failure Run returns the error.
RunListen4 ==
  /\ ~panicked
  /\ pcRun = "listen4"
  /\ \E ok \in BOOLEAN :
       IF ok
       THEN /\ conn4' = "open"
            /\ pcRun' = "listen6"
            /\ err' = err
       ELSE /\ conn4' = conn4
            /\ pcRun' = "returned"
            /\ err' = "socket4"
  /\ UNCHANGED <<conn6, seqID, addrIdx, mapSeqPinger, cfgVars, sendVars, tickVars,
                 gateVars, recvVars, netVars>>

\* RunListen6 with the error of the IPv6 listen recorded but not returned.
RunListen6_NoReturn ==
  /\ ~panicked
  /\ pcRun = "listen6"
  /\ \E ok \in BOOLEAN :
       IF ok
       THEN /\ conn6' = "open"
            /\ err' = err
       ELSE /\ conn6' = conn6
            /\ err' = "socket6"
  /\ pcRun' = "pingers"
  /\ UNCHANGED <<conn4, seqID, addrIdx, mapSeqPinger, cfgVars, sendVars, tickVars,
                 gateVars, recvVars, netVars>>

\* icmp.ListenPacket for IPv6: on failure Run returns the error; no deferred
\* Close is registered yet, so bp.conn4 stays as it is.
RunListen6 ==
  /\ ~panicked
  /\ pcRun = "listen6"
  /\ \E ok \in BOOLEAN :
       IF ok
       THEN /\ conn6' = "open"
            /\ pcRun' = "pingers"
            /\ err' = err
       ELSE /\ conn6' = conn6
            /\ pcRun' = "returned"
            /\ err' = "socket6"
  /\ UNCHANGED <<conn4, seqID, addrIdx, mapSeqPinger, cfgVars, sendVars, tickVars,
                 gateVars, recvVars, netVars>>

\* RunNewPinger with seqID++ moved behind the binding: the ids start at 0.
RunNewPinger_BindFirst ==
  /\ ~panicked
  /\ pcRun = "pingers"
  /\ addrIdx < nAddrs
  /\ addrIdx' = addrIdx + 1
  /\ seqID' = seqID + 1
  /\ \E ok \in BOOLEAN :
       IF ok
       THEN /\ mapSeqPinger' = [k \in DOMAIN mapSeqPinger \cup {seqID} |->
                                  IF k = seqID
                                  THEN [NewPinger EXCEPT !.addr = addrIdx + 1]
                                  ELSE mapSeqPinger[k]]
            /\ pcRun' = pcRun
            /\ err' = err
       ELSE /\ mapSeqPinger' = mapSeqPinger
            /\ pcRun' = "returned"
            /\ err' = "pinger"
  /\ UNCHANGED <<conn4, conn6, cfgVars, sendVars, tickVars, gateVars, recvVars,
                 netVars>>

\* One iteration of the loop over bp.addrs, which takes the addresses in
\* their order: seqID++, NewPinger(addr, ...), and either the early return of
\* its error or the binding of seqID in the map.
RunNewPinger ==
  /\ ~panicked
  /\ pcRun = "pingers"
  /\ addrIdx < nAddrs
  /\ addrIdx' = addrIdx + 1
  /\ seqID' = seqID + 1
  /\ \E ok \in BOOLEAN :
       IF ok
       THEN /\ mapSeqPinger' = [k \in DOMAIN mapSeqPinger \cup {seqID + 1} |->
                                  IF k = seqID + 1
                                  THEN [NewPinger EXCEPT !.addr = addrIdx + 1]
                                  ELSE mapSeqPinger[k]]
            /\ pcRun' = pcRun
            /\ err' = err
       ELSE /\ mapSeqPinger' = mapSeqPinger
            /\ pcRun' = "returned"
            /\ err' = "pinger"
  /\ UNCHANGED <<conn4, conn6, cfgVars, sendVars, tickVars, gateVars, recvVars,
                 netVars>>

\* The loop over bp.addrs is over: the two Close calls are deferred, and the
\* three goroutines are started.
RunSpawn ==
  /\ ~panicked
  /\ pcRun = "pingers"
  /\ addrIdx = nAddrs
  /\ pcRun' = "wait"
  /\ pcS' = "start"
  /\ pcR' = [r \in Receivers |-> "select"]
  /\ UNCHANGED <<err, conn4, conn6, seqID, addrIdx, mapSeqPinger, cfgVars, pending, cur,
                 sendCount, tickVars, gateVars, pkt, perr, ldRecv, ldRtts,
                 netVars>>

\* RunReturn with a wait for the sender only.
RunReturn_SenderOnly ==
  /\ ~panicked
  /\ pcRun = "wait"
  /\ pcS = "exit"
  /\ conn6' = "closed"
  /\ conn4' = "closed"
  /\ err' = "nil"
  /\ pcRun' = "returned"
  /\ UNCHANGED <<seqID, addrIdx, mapSeqPinger, cfgVars, sendVars, tickVars,
                 gateVars, recvVars, netVars>>

\* wg.Wait returns once the three goroutines called wg.Done; Run returns nil
\* and the deferred calls close conn6, then conn4.
RunReturn ==
  /\ ~panicked
  /\ pcRun = "wait"
  /\ pcS = "exit"
  /\ \A r \in Receivers : pcR[r] = "exit"
  /\ conn6' = "closed"
  /\ conn4' = "closed"
  /\ err' = "nil"
  /\ pcRun' = "returned"
  /\ UNCHANGED <<seqID, addrIdx, mapSeqPinger, cfgVars, sendVars, tickVars,
                 gateVars, recvVars, netVars>>

\* --------------------------------------------------------------- tickers
\* The tickers exist from time.NewTicker on; they are looked at only while
\* sendICMP runs.
TickersArmed == pcS \notin {"idle", "start", "exit"}

\* The runtime puts a tick on interval.C (capacity one: a tick that finds the
\* channel full is dropped).
IntervalTick ==
  /\ ~panicked
  /\ TickersArmed
  /\ ~intervalC
  /\ intervalC' = TRUE
  /\ UNCHANGED <<timeoutC, timeoutFired, runVars, mapSeqPinger, cfgVars,
                 sendVars, gateVars, recvVars, netVars>>

\* The runtime puts a tick on timeout.C.
TimeoutTick ==
  /\ ~panicked
  /\ TickersArmed
  /\ ~timeoutC
  /\ timeoutC' = TRUE
  /\ timeoutFired' = TRUE
  /\ UNCHANGED <<intervalC, runVars, mapSeqPinger, cfgVars, sendVars, gateVars,
                 recvVars, netVars>>

\* ---------------------------------------------------------------- sender
\* close(bp.done): closing a closed channel panics.
CloseGate ==
  /\ done' = TRUE
  /\ closes' = closes + 1
  /\ panicked' = done

\* time.NewTicker(bp.timeout), time.NewTicker(bp.interval): two new tickers,
\* their channels empty.
SenderStart ==
  /\ ~panicked
  /\ pcS = "start"
  /\ pcS' = "select"
  /\ intervalC' = FALSE
  /\ timeoutC' = FALSE
  /\ timeoutFired' = FALSE
  /\ UNCHANGED <<pending, cur, sendCount, runVars, mapSeqPinger, cfgVars,
                 gateVars, recvVars, netVars>>

\* The cases of the select that can proceed.
ReadyCases ==
  (IF done THEN {"done"} ELSE {})
    \cup (IF timeoutC THEN {"timeout"} ELSE {})
    \cup (IF intervalC THEN {"interval"} ELSE {})

\* SenderSelect with the return after close(bp.done) missing in the timeout
\* case.
SenderSelect_TimeoutNoReturn ==
  /\ ~panicked
  /\ pcS = "select"
  /\ \E c \in ReadyCases :
       CASE c = "done" ->
              /\ pcS' = "exit"
              /\ UNCHANGED <<pending, tickVars, gateVars>>
         [] c = "timeout" ->
              /\ timeoutC' = FALSE
              /\ CloseGate
              /\ pcS' = "select"
              /\ UNCHANGED <<pending, intervalC, timeoutFired>>
         [] c = "interval" ->
              /\ intervalC' = FALSE
              /\ pending' = DOMAIN mapSeqPinger
              /\ pcS' = IF DOMAIN mapSeqPinger = {} THEN "count" ELSE "send"
              /\ UNCHANGED <<timeoutC, timeoutFired, gateVars>>
  /\ UNCHANGED <<cur, sendCount, runVars, mapSeqPinger, cfgVars, recvVars,
                 netVars>>

\* The select of sendICMP: one of the cases that can proceed, chosen at
\* random. <-bp.done returns; <-timeout.C closes the gate and returns;
\* <-interval.C enters batchSendICMP.
SenderSelect ==
  /\ ~panicked
  /\ pcS = "select"
  /\ \E c \in ReadyCases :
       CASE c = "done" ->
              /\ pcS' = "exit"
              /\ UNCHANGED <<pending, tickVars, gateVars>>
         [] c = "timeout" ->
              /\ timeoutC' = FALSE
              /\ CloseGate
              /\ pcS' = "exit"
              /\ UNCHANGED <<pending, intervalC, timeoutFired>>
         [] c = "interval" ->
              /\ intervalC' = FALSE
              /\ pending' = DOMAIN mapSeqPinger
              /\ pcS' = IF DOMAIN mapSeqPinger = {} THEN "count" ELSE "send"
              /\ UNCHANGED <<timeoutC, timeoutFired, gateVars>>
  /\ UNCHANGED <<cur, sendCount, runVars, mapSeqPinger, cfgVars, recvVars,
                 netVars>>

\* batchSendICMP, pinger.SendICMP(): the range loop takes one of the pingers
\* it has not visited (Go's map order is unspecified) and transmits its echo
\* request.
SenderTransmit ==
  /\ ~panicked
  /\ pcS = "send"
  /\ \E s \in pending : cur' = s
  /\ pcS' = "inc"
  /\ UNCHANGED <<pending, sendCount, tickVars, runVars, mapSeqPinger, cfgVars,
                 gateVars, recvVars, netVars>>

\* SenderInc with PacketsSent++ after the range loop instead of in it: only
\* the pinger visited last is counted.
SenderInc_AfterLoop ==
  /\ ~panicked
  /\ pcS = "inc"
  /\ mapSeqPinger' = IF pending \ {cur} = {}
                     THEN [mapSeqPinger EXCEPT ![cur].PacketsSent = @ + 1]
                     ELSE mapSeqPinger
  /\ pending' = pending \ {cur}
  /\ cur' = 0
  /\ pcS' = IF pending \ {cur} = {} THEN "count" ELSE "send"
  /\ UNCHANGED <<sendCount, tickVars, runVars, cfgVars, gateVars, recvVars,
                 netVars>>

\* batchSendICMP, pinger.PacketsSent++, and the loop's next iteration or end.
SenderInc ==
  /\ ~panicked
  /\ pcS = "inc"
  /\ mapSeqPinger' = [mapSeqPinger EXCEPT ![cur].PacketsSent = @ + 1]
  /\ pending' = pending \ {cur}
  /\ cur' = 0
  /\ pcS' = IF pending \ {cur} = {} THEN "count" ELSE "send"
  /\ UNCHANGED <<sendCount, tickVars, runVars, cfgVars, gateVars, recvVars,
                 netVars>>

\* SenderCount with time.Sleep(bp.interval) missing: the gate is closed as
\* soon as the last round is counted.
SenderCount_NoGrace ==
  /\ ~panicked
  /\ pcS = "count"
  /\ sendCount' = sendCount + 1
  /\ IF sendCount + 1 >= count
     THEN CloseGate /\ pcS' = "exit"
     ELSE pcS' = "select" /\ UNCHANGED gateVars
  /\ UNCHANGED <<pending, cur, tickVars, runVars, mapSeqPinger, cfgVars,
                 recvVars, netVars>>

\* SenderCount with bp.sendCount++ missing.
SenderCount_NoIncrement ==
  /\ ~panicked
  /\ pcS = "count"
  /\ sendCount' = sendCount
  /\ pcS' = IF sendCount >= count THEN "sleep" ELSE "select"
  /\ UNCHANGED <<pending, cur, tickVars, runVars, mapSeqPinger, cfgVars,
                 gateVars, recvVars, netVars>>

\* bp.sendCount++ and the test bp.sendCount >= bp.count, which leads to
\* time.Sleep(bp.interval).
SenderCount ==
  /\ ~panicked
  /\ pcS = "count"
  /\ sendCount' = sendCount + 1
  /\ pcS' = IF sendCount + 1 >= count THEN "sleep" ELSE "select"
  /\ UNCHANGED <<pending, cur, tickVars, runVars, mapSeqPinger, cfgVars,
                 gateVars, recvVars, netVars>>

\* time.Sleep returns: close(bp.done) and return.
SenderGraceClose ==
  /\ ~panicked
  /\ pcS = "sleep"
  /\ CloseGate
  /\ pcS' = "exit"
  /\ UNCHANGED <<pending, cur, sendCount, tickVars, runVars, mapSeqPinger,
                 cfgVars, recvVars, netVars>>

\* ------------------------------------------------------------- correlator
\* Verdict with the identifier test missing.
Verdict_NoIdCheck(p, keys) ==
  IF p.kind = "parseErr" THEN "parseErr"
  ELSE IF p.kind # "echoReply" THEN "notReply"
  ELSE IF DataLen(p) < TimeSliceLength + TrackerLength THEN "short"
  ELSE IF p.seq \in keys THEN "match"
  ELSE "unknownSeq"

\* Verdict with a failed map lookup falling into the error of the default case.
Verdict_MissIsError(p, keys) ==
  IF p.kind = "parseErr" THEN "parseErr"
  ELSE IF p.kind # "echoReply" THEN "notReply"
  ELSE IF p.id # MyId THEN "wrongId"
  ELSE IF DataLen(p) < TimeSliceLength + TrackerLength THEN "short"
  ELSE IF p.seq \in keys THEN "match"
  ELSE "invalid"

\* processPacket, up to its effect: which of its paths a decoded packet takes.
\* icmp.ParseMessage gives every echo reply an *icmp.Echo body, so the
\* default case of the type switch is taken by no packet.
Verdict(p, keys) ==
  IF p.kind = "parseErr" THEN "parseErr"
  ELSE IF p.kind # "echoReply" THEN "notReply"
  ELSE IF p.id # MyId THEN "wrongId"
  ELSE IF DataLen(p) < TimeSliceLength + TrackerLength THEN "short"
  ELSE IF p.seq \in keys THEN "match"
  ELSE "unknownSeq"

\* The error processPacket returns on a path ("invalid": the default case of
\* the type switch).
ErrorOf(v) ==
  CASE v = "parseErr" -> "parse"
    [] v = "short" -> "insufficient"
    [] v = "invalid" -> "invalid"
    [] OTHER -> "nil"

\* -------------------------------------------------------------- receivers
\* The sequences for which an echo request was transmitted: SendICMP was
\* called for the pinger, in this iteration of the range loop or an earlier.
OnWire ==
  {s \in DOMAIN mapSeqPinger : mapSeqPinger[s].PacketsSent > 0 \/ (pcS = "inc" /\ cur = s)}

\* An echo reply to a request of this run.
IsReply(p) == p.kind = "echoReply" /\ p.id = MyId /\ p.seq \in DOMAIN mapSeqPinger

\* What a socket can hand over: any packet, except that a reply to a request
\* of this run follows the request.
CanArrive(p) == IsReply(p) => (p.seq \in OnWire /\ nReplies < MaxReplies)

\* What recvIpv6 hands to processPacket after a failed read: the untouched
\* zeroed buffer, an ICMPv6 message of type 0, which is no echo reply.
FailedReadPkt == [kind |-> "failedRead", id |-> 0, seq |-> 0]

\* RecvExit with the case <-bp.done missing: the loop goes on reading.
RecvExit_NoGate(r) ==
  /\ ~panicked
  /\ pcR[r] = "select"
  /\ done
  /\ pkt' = [pkt EXCEPT ![r] = NoPkt]
  /\ perr' = [perr EXCEPT ![r] = "nil"]
  /\ UNCHANGED <<pcR, ldRecv, ldRtts, runVars, mapSeqPinger, cfgVars, sendVars,
                 tickVars, gateVars, netVars>>

\* select { case <-bp.done: return; ... }
RecvExit(r) ==
  /\ ~panicked
  /\ pcR[r] = "select"
  /\ done
  /\ pcR' = [pcR EXCEPT ![r] = "exit"]
  /\ pkt' = [pkt EXCEPT ![r] = NoPkt]
  /\ perr' = [perr EXCEPT ![r] = "nil"]
  /\ UNCHANGED <<ldRecv, ldRtts, runVars, mapSeqPinger, cfgVars, sendVars,
                 tickVars, gateVars, netVars>>

\* The default case of the select and the ReadFrom it leads to are one step
\* (between the two the receiver touches nothing shared); what processPacket
\* returned in the previous iteration was dropped by the loop.
\* Here ReadFrom ends at the read deadline: continue.
RecvTimeout(r) ==
  /\ ~panicked
  /\ pcR[r] = "select"
  /\ ~done
  /\ pkt' = [pkt EXCEPT ![r] = NoPkt]
  /\ perr' = [perr EXCEPT ![r] = "nil"]
  /\ UNCHANGED <<pcR, ldRecv, ldRtts, runVars, mapSeqPinger, cfgVars, sendVars,
                 tickVars, gateVars, netVars>>

\* RecvReadError with a receiver that shuts the run down when its read fails.
RecvReadError_ClosesGate(r) ==
  /\ ~panicked
  /\ pcR[r] = "select"
  /\ ~done
  /\ CloseGate
  /\ pcR' = [pcR EXCEPT ![r] = "exit"]
  /\ pkt' = [pkt EXCEPT ![r] = NoPkt]
  /\ perr' = [perr EXCEPT ![r] = "nil"]
  /\ UNCHANGED <<ldRecv, ldRtts, runVars, mapSeqPinger, cfgVars, sendVars,
                 tickVars, netVars>>

\* ReadFrom fails with a *net.OpError that is no timeout: recvIpv4 returns,
\* recvIpv6 goes on to processPacket with its buffer.
RecvReadError(r) ==
  /\ ~panicked
  /\ pcR[r] = "select"
  /\ ~done
  /\ IF r = 4
     THEN /\ pcR' = [pcR EXCEPT ![r] = "exit"]
          /\ pkt' = [pkt EXCEPT ![r] = NoPkt]
     ELSE /\ pcR' = [pcR EXCEPT ![r] = "process"]
          /\ pkt' = [pkt EXCEPT ![r] = FailedReadPkt]
  /\ perr' = [perr EXCEPT ![r] = "nil"]
  /\ UNCHANGED <<ldRecv, ldRtts, runVars, mapSeqPinger, cfgVars, sendVars,
                 tickVars, gateVars, netVars>>

\* RecvRead by a loop that reads without looking at bp.done.
RecvRead_IgnoresGate(r) ==
  /\ ~panicked
  /\ pcR[r] = "select"
  /\ \E p \in Packets :
       /\ CanArrive(p)
       /\ pkt' = [pkt EXCEPT ![r] = p]
       /\ nReplies' = IF IsReply(p) THEN nReplies + 1 ELSE nReplies
       /\ delivered' = IF IsReply(p) THEN delivered \cup {p.seq} ELSE delivered
  /\ pcR' = [pcR EXCEPT ![r] = "process"]
  /\ perr' = [perr EXCEPT ![r] = "nil"]
  /\ UNCHANGED <<ldRecv, ldRtts, runVars, mapSeqPinger, cfgVars, sendVars,
                 tickVars, gateVars>>

\* ReadFrom returns a datagram.
RecvRead(r) ==
  /\ ~panicked
  /\ pcR[r] = "select"
  /\ ~done
  /\ \E p \in Packets :
       /\ CanArrive(p)
       /\ pkt' = [pkt EXCEPT ![r] = p]
       /\ nReplies' = IF IsReply(p) THEN nReplies + 1 ELSE nReplies
       /\ delivered' = IF IsReply(p) THEN delivered \cup {p.seq} ELSE delivered
  /\ pcR' = [pcR EXCEPT ![r] = "process"]
  /\ perr' = [perr EXCEPT ![r] = "nil"]
  /\ UNCHANGED <<ldRecv, ldRtts, runVars, mapSeqPinger, cfgVars, sendVars,
                 tickVars, gateVars>>

\* RecvProcess by a loop that returns when processPacket returns an error.
RecvProcess_ErrorReturns(r) ==
  /\ ~panicked
  /\ pcR[r] = "process"
  /\ LET v == Verdict(pkt[r], DOMAIN mapSeqPinger) IN
       IF v = "match"
       THEN /\ ldRecv' = [ldRecv EXCEPT ![r] = mapSeqPinger[pkt[r].seq].PacketsRecv]
            /\ pcR' = [pcR EXCEPT ![r] = "inc"]
            /\ UNCHANGED <<pkt, perr>>
       ELSE /\ ldRecv' = ldRecv
            /\ pcR' = [pcR EXCEPT ![r] = IF ErrorOf(v) = "nil" THEN "select" ELSE "exit"]
            /\ pkt' = [pkt EXCEPT ![r] = NoPkt]
            /\ perr' = [perr EXCEPT ![r] = ErrorOf(v)]
  /\ UNCHANGED <<ldRtts, mapSeqPinger, runVars, cfgVars, sendVars, tickVars,
                 gateVars, netVars>>

\* processPacket up to the load of pinger.PacketsRecv: a packet that matches
\* a pinger goes on to the increment, any other ends the call. Nothing in
\* the program orders the two receivers' accesses to one Pinger, so the
\* increment and the append below are each a load and a store between which
\* the other receiver may run.
RecvProcess(r) ==
  /\ ~panicked
  /\ pcR[r] = "process"
  /\ LET v == Verdict(pkt[r], DOMAIN mapSeqPinger) IN
       IF v = "match"
       THEN /\ ldRecv' = [ldRecv EXCEPT ![r] = mapSeqPinger[pkt[r].seq].PacketsRecv]
            /\ pcR' = [pcR EXCEPT ![r] = "inc"]
            /\ UNCHANGED <<pkt, perr>>
       ELSE /\ ldRecv' = ldRecv
            /\ pcR' = [pcR EXCEPT ![r] = "select"]
            /\ pkt' = [pkt EXCEPT ![r] = NoPkt]
            /\ perr' = [perr EXCEPT ![r] = ErrorOf(v)]
  /\ UNCHANGED <<ldRtts, mapSeqPinger, runVars, cfgVars, sendVars, tickVars,
                 gateVars, netVars>>

\* pinger.PacketsRecv++, the store: one more than what was loaded.
RecvInc(r) ==
  /\ ~panicked
  /\ pcR[r] = "inc"
  /\ mapSeqPinger' = [mapSeqPinger EXCEPT ![pkt[r].seq].PacketsRecv = ldRecv[r] + 1]
  /\ ldRecv' = [ldRecv EXCEPT ![r] = 0]
  /\ pcR' = [pcR EXCEPT ![r] = "load"]
  /\ UNCHANGED <<pkt, perr, ldRtts, runVars, cfgVars, sendVars, tickVars,
                 gateVars, netVars>>

\* append(pinger.rtts, ...), the load of the slice it appends to.
RecvLoad(r) ==
  /\ ~panicked
  /\ pcR[r] = "load"
  /\ ldRtts' = [ldRtts EXCEPT ![r] = mapSeqPinger[pkt[r].seq].rtts]
  /\ pcR' = [pcR EXCEPT ![r] = "append"]
  /\ UNCHANGED <<pkt, perr, ldRecv, mapSeqPinger, runVars, cfgVars, sendVars,
                 tickVars, gateVars, netVars>>

\* pinger.rtts = append(..., receivedAt.Sub(timestamp)), the store of the
\* slice with the sample behind what was loaded; return nil.
RecvAppend(r) ==
  /\ ~panicked
  /\ pcR[r] = "append"
  /\ mapSeqPinger' = [mapSeqPinger EXCEPT ![pkt[r].seq].rtts = Append(ldRtts[r], RTT(pkt[r]))]
  /\ ldRtts' = [ldRtts EXCEPT ![r] = <<>>]
  /\ pcR' = [pcR EXCEPT ![r] = "select"]
  /\ pkt' = [pkt EXCEPT ![r] = NoPkt]
  /\ perr' = [perr EXCEPT ![r] = "nil"]
  /\ UNCHANGED <<ldRecv, runVars, cfgVars, sendVars, tickVars, gateVars, netVars>>

\* ------------------------------------------------------------------ specs
RunStep == RunListen4 \/ RunListen6 \/ RunNewPinger \/ RunSpawn \/ RunReturn

SenderStep ==
  \/ SenderStart
  \/ SenderSelect
  \/ SenderTransmit
  \/ SenderInc
  \/ SenderCount
  \/ SenderGraceClose

RecvStep(r) ==
  \/ RecvExit(r)
  \/ RecvTimeout(r)
  \/ RecvReadError(r)
  \/ RecvRead(r)
  \/ RecvProcess(r)
  \/ RecvInc(r)
  \/ RecvLoad(r)
  \/ RecvAppend(r)

\* Every action is guarded by ~panicked: a panic ends the process.
Next ==
  \/ RunStep
  \/ SenderStep
  \/ IntervalTick
  \/ TimeoutTick
  \/ \E r \in Receivers : RecvStep(r)

Spec == Init /\ [][Next]_vars

\* The Go scheduler runs every runnable goroutine, and a ticker's period
\* elapses; nothing obliges the timeout ticker to fire during the run.
FairSpec ==
  /\ Spec
  /\ WF_vars(RunStep)
  /\ WF_vars(SenderStep)
  /\ WF_vars(IntervalTick)
  /\ \A r \in Receivers : WF_vars(RecvStep(r))

\* Run is called again on the Engine once an earlier call has returned. Run
\* starts at ListenPacket with a new local seqID; nothing of the Engine is
\* reset: bp.done is made in NewBatchPinger only, bp.sendCount and the
\* entries of bp.mapSeqPinger stay until they are overwritten.
RunAgain ==
  /\ ~panicked
  /\ pcRun = "returned"
  /\ pcRun' = "listen4"
  /\ err' = "nil"
  /\ seqID' = 0
  /\ addrIdx' = 0
  /\ delivered' = {}
  /\ nReplies' = 0
  /\ UNCHANGED <<conn4, conn6, mapSeqPinger, cfgVars, sendVars, tickVars,
                 gateVars, recvVars>>

NextReuse == Next \/ RunAgain

\* One Engine, any number of calls of Run one after the other.
SpecReuse == Init /\ [][NextReuse]_vars

\* ----------------------------------------------------------------- claims
Keys == DOMAIN mapSeqPinger
LoopsExited == pcS = "exit" /\ \A r \in Receivers : pcR[r] = "exit"
RunCompleted == pcRun = "returned" /\ err = "nil"

\* No receiver is inside processPacket or holds a packet for it.
Quiescent == \A r \in Receivers : pcR[r] \in {"idle", "select", "exit"}

\* The sum of f over the pingers of S.
RECURSIVE Total(_, _)
Total(f, S) ==
  IF S = {} THEN 0
  ELSE LET s == CHOOSE x \in S : TRUE IN f[s] + Total(f, S \ {s})

\* Over all pingers, the PacketsRecv counted and the rtts samples recorded.
TotalRecv == Total([s \in Keys |-> mapSeqPinger[s].PacketsRecv], Keys)
TotalRtts == Total([s \in Keys |-> Len(mapSeqPinger[s].rtts)], Keys)

\* What the claims call a packet-level error: a buffer that does not decode,
\* a message that is no echo reply, an echo reply of this process whose
\* payload is shorter than timestamp and marker.
PacketError(p) ==
  \/ p.kind \in {"parseErr", "other", "failedRead"}
  \/ p.kind = "echoReply" /\ p.id = MyId /\ DataLen(p) < TimeSliceLength + TrackerLength

\* C1: in a run, close(bp.done) is executed at most once, never on a closed
\* channel, and exactly once by the time sendICMP has returned and by the
\* time Run returns nil: the timeout path and the count path never both close.
C1_GateClosedExactlyOnce ==
  /\ closes <= 1
  /\ ~panicked
  /\ done = (closes = 1)
  /\ (pcS = "exit" => closes = 1)
  /\ (RunCompleted => closes = 1)

\* The race of C1: the count was reached and the timeout fired in one run.
C1_Witness ==
  /\ RunCompleted
  /\ closes = 1
  /\ timeoutFired
  /\ count >= 1
  /\ sendCount >= count

\* C2: once both sockets are open, Run eventually returns, and when it
\* started the three loops, all three have exited by then; under the fairness
\* of FairSpec, which obliges neither the timeout to fire nor a read to
\* succeed.
C2_RunTerminates ==
  (pcRun = "pingers") ~> (pcRun = "returned" /\ (pcS # "idle" => LoopsExited))

\* A completed run of at least one round in which the timeout never fired
\* and no reply was read.
C2_Witness ==
  /\ RunCompleted
  /\ LoopsExited
  /\ ~timeoutFired
  /\ count >= 1
  /\ Keys # {}
  /\ nReplies = 0

\* C3: PacketsRecv <= PacketsSent for every Target in every reachable state.
C3_RecvAtMostSent ==
  \A s \in Keys : mapSeqPinger[s].PacketsRecv <= mapSeqPinger[s].PacketsSent

\* C4 as stated: for every configured count, PacketsSent <= count + 1 for
\* every Target, and sendCount <= count + 1.
C4_SentAtMostCountPlusOne ==
  /\ \A s \in Keys : mapSeqPinger[s].PacketsSent <= count + 1
  /\ sendCount <= count + 1

\* C4 amended: the bound holds for every configured count >= 0.
C4_SentAtMostCountPlusOneNonNeg ==
  count >= 0 =>
    /\ \A s \in Keys : mapSeqPinger[s].PacketsSent <= count + 1
    /\ sendCount <= count + 1

\* The bound of C4 is met: count = 0 and one round was sent.
C4_Witness ==
  /\ count = 0
  /\ sendCount = count + 1
  /\ \E s \in Keys : mapSeqPinger[s].PacketsSent = count + 1

\* C5: the processPacket call on an echo reply whose identifier is not bp.id
\* changes no Target (PacketsRecv and rtts included) and ends there.
C5_ForeignIdNeverCounted ==
  [][\A r \in Receivers :
       (/\ pcR[r] = "process"
        /\ pcR'[r] # "process"
        /\ pkt[r].kind = "echoReply"
        /\ pkt[r].id # MyId)
       => (mapSeqPinger' = mapSeqPinger /\ pcR'[r] = "select")]_vars

\* processPacket is running on a reply with a foreign identifier and the
\* sequence of a Target that was pinged and has received nothing.
C5_Witness ==
  \E r \in Receivers :
    /\ pcR[r] = "process"
    /\ pkt[r].kind = "echoReply"
    /\ pkt[r].id # MyId
    /\ pkt[r].seq \in OnWire
    /\ mapSeqPinger[pkt[r].seq].PacketsRecv = 0

\* C6: the processPacket call on an echo reply with identifier bp.id and a
\* sequence that is no key of the map returns nil and leaves the map, keys
\* and Targets, as it is.
C6_UnknownSeqDropped ==
  [][\A r \in Receivers :
       (/\ pcR[r] = "process"
        /\ pcR'[r] # "process"
        /\ pkt[r].kind = "echoReply"
        /\ pkt[r].id = MyId
        /\ pkt[r].seq \notin Keys)
       => (/\ mapSeqPinger' = mapSeqPinger
           /\ perr'[r] = "nil"
           /\ pcR'[r] = "select")]_vars

\* processPacket is running on a reply with bp.id and an unknown sequence
\* while Targets exist and requests are out.
C6_Witness ==
  \E r \in Receivers :
    /\ pcR[r] = "process"
    /\ pkt[r].kind = "echoReply"
    /\ pkt[r].id = MyId
    /\ pkt[r].seq \notin Keys
    /\ OnWire # {}

\* C7: when Run has returned, on any path, no socket it opened is still open.
C7_SocketsClosedOnReturn ==
  pcRun = "returned" => (conn4 # "open" /\ conn6 # "open")

\* C8: a failed socket open makes Run return that error with no loop started,
\* no request sent, no Target touched and the gate open.
C8_SocketFailureStartsNothing ==
  err \in {"socket4", "socket6"} =>
    /\ pcRun = "returned"
    /\ pcS = "idle"
    /\ \A r \in Receivers : pcR[r] = "idle"
    /\ OnWire = {}
    /\ mapSeqPinger = <<>>
    /\ sendCount = 0
    /\ ~done
    /\ closes = 0

\* Run returned the error of the IPv6 listen after the IPv4 listen succeeded.
C8_Witness == pcRun = "returned" /\ err = "socket6" /\ conn4 = "open"

\* C9: once the timeout ticker has fired, the select of sendICMP never again
\* starts a round: its step is the close and return of the timeout case.
C9_TimeoutStopsSending ==
  [][(timeoutFired /\ pcS = "select" /\ pcS' # pcS) => (pcS' = "exit" /\ done')]_vars

\* C10: a completed run with count >= 1 in which the timeout never fired
\* leaves every Target with PacketsSent = count, and a Target for whose
\* sequence no reply was read with PacketsRecv = 0 and no rtts.
C10_SentEqualsCount ==
  (RunCompleted /\ count >= 1 /\ ~timeoutFired) =>
    \A s \in Keys :
      /\ mapSeqPinger[s].PacketsSent = count
      /\ s \notin delivered =>
           (mapSeqPinger[s].PacketsRecv = 0 /\ mapSeqPinger[s].rtts = <<>>)

\* Such a run with one Target answered and another never answered.
C10_Witness ==
  /\ RunCompleted
  /\ count >= 2
  /\ ~timeoutFired
  /\ \E s, t \in Keys :
       /\ s \notin delivered
       /\ mapSeqPinger[s].PacketsSent = count
       /\ t \in delivered
       /\ mapSeqPinger[t].PacketsRecv >= 1

\* C11: no close(bp.done) ever finds the gate closed and fails, whatever the
\* operations on one Engine, Run called again after an earlier run closed the
\* gate included.
C11_CloseNeverFails == ~panicked

\* C12: in either receiver a read that fails with an error other than a
\* timeout ends the loop, and its buffer is never handed to processPacket.
C12_FailedReadNeverProcessed ==
  \A r \in Receivers : ~(pcR[r] = "process" /\ pkt[r] = FailedReadPkt)

\* C13: the gate is closed by a step of sendICMP only, which then returns; a
\* receiver that returns while the gate is open (its read failed) leaves the
\* gate, the sender and the other receiver as they are.
C13_OnlySenderClosesGate ==
  [][/\ (done' # done \/ closes' # closes) =>
          (pcS \in {"select", "sleep"} /\ pcS' = "exit" /\ pcR' = pcR)
     /\ \A r \in Receivers :
          (~done /\ pcR[r] # "exit" /\ pcR'[r] = "exit") =>
            /\ UNCHANGED <<done, closes, panicked, pcS>>
            /\ \A q \in Receivers \ {r} : pcR'[q] = pcR[q]]_vars

\* recvIpv4 has returned on a failed read; the gate is open, the sender is in
\* a round and recvIpv6 holds a matching reply.
C13_Witness ==
  /\ pcR[4] = "exit"
  /\ ~done
  /\ pcS = "send"
  /\ pcR[6] = "process"
  /\ IsReply(pkt[6])

\* C14: no update of a pinger is lost when the two receivers process matching
\* replies at the same time: with no processPacket call under way, the
\* PacketsRecv of the pingers add up to the matching replies read, and so do
\* their rtts samples.
C14_NoLostUpdate ==
  Quiescent => (TotalRecv = nReplies /\ TotalRtts = nReplies)

C16_ReturnAfterLoops ==
  /\ [](RunCompleted => LoopsExited)
  /\ [][pcRun = "returned" => mapSeqPinger' = mapSeqPinger]_vars

\* Run has returned after a run in which replies were counted.
C16_Witness ==
  /\ RunCompleted
  /\ LoopsExited
  /\ \E s \in Keys : mapSeqPinger[s].PacketsSent >= 1 /\ mapSeqPinger[s].PacketsRecv >= 1

\* C17: outside the timeout case the gate is closed only from time.Sleep,
\* with the last round sent to every pinger; during the sleep no receiver
\* returns on account of the gate, and a receiver that holds a matching reply
\* goes on to the increment of PacketsRecv and executes it.
C17_GraceBeforeClose ==
  [][/\ (~done /\ done' /\ pcS # "select") =>
          /\ pcS = "sleep"
          /\ sendCount >= count
          /\ pending = {}
          /\ \A s \in Keys : mapSeqPinger[s].PacketsSent = sendCount
     /\ pcS = "sleep" =>
          \A r \in Receivers :
            /\ (pcR[r] # "exit" /\ pcR'[r] = "exit") => (r = 4 /\ pcR[r] = "select")
            /\ (pcR[r] = "process" /\ IsReply(pkt[r]) /\ pcR'[r] # "process") =>
                 pcR'[r] = "inc"
            /\ (pcR[r] = "inc" /\ pcR'[r] # "inc") =>
                 mapSeqPinger'[pkt[r].seq].PacketsRecv = ldRecv[r] + 1]_vars

\* The sender sleeps after the last of count rounds, the gate is open, and a
\* receiver has just counted a matching reply.
C17_Witness ==
  /\ pcS = "sleep"
  /\ ~done
  /\ count >= 1
  /\ \A s \in Keys : mapSeqPinger[s].PacketsSent = count
  /\ \E r \in Receivers :
       /\ pcR[r] = "load"
       /\ mapSeqPinger[pkt[r].seq].PacketsRecv = 1
       /\ nReplies = 1

C19_SeqIdsFixed ==
  /\ [](pcS # "idle" =>
          /\ Keys = 1..nAddrs
          /\ \A k \in Keys : mapSeqPinger[k].addr = k)
  /\ [][pcS # "idle" =>
          /\ DOMAIN mapSeqPinger' = DOMAIN mapSeqPinger
          /\ \A k \in Keys :
               /\ mapSeqPinger'[k].addr = mapSeqPinger[k].addr
               /\ mapSeqPinger'[k].PacketsSent >= mapSeqPinger[k].PacketsSent]_vars

\* Run has returned from a run over MaxAddrs addresses in which the pinger
\* of the last one was sent to and counted a reply.
C19_Witness ==
  /\ RunCompleted
  /\ nAddrs = MaxAddrs
  /\ mapSeqPinger[nAddrs].PacketsSent >= 1
  /\ mapSeqPinger[nAddrs].PacketsRecv >= 1

\* C20: with no processPacket call under way, every pinger has as many rtts
\* samples as its PacketsRecv says.
C20_RttsMatchRecv ==
  Quiescent => \A s \in Keys : Len(mapSeqPinger[s].rtts) = mapSeqPinger[s].PacketsRecv

====
